---------------------------- MODULE Spec2Model ----------------------------
(***************************************************************************)
(* UrbanFlow (src/urbanflow.py): CityDataSet.load_data, the aggregates,    *)
(* find_hotspots and export_summary, as a state machine.                   *)
(*                                                                         *)
(* Representation.  A Python str is a sequence of one-character strings,   *)
(* so that strip / lower / replace / split / int / float / f-string        *)
(* padding are computed character by character.  A Python float is held    *)
(* as an integer number of tenths (12.5 is 125); every float literal of    *)
(* the input sets has at most one fractional digit, so the tenths are      *)
(* exact.  A quotient of two numbers (a mean, a ratio) is held as the      *)
(* pair [n, d] and compared by cross-multiplication.                       *)
(***************************************************************************)
EXTENDS Integers, Sequences, FiniteSets, TLC

VARIABLES
    pc,            \* position of the program (see Next)
    traffic_file,  \* "unopened" | "open" | "closed" | "missing"
    air_folder,    \* "unchecked" | "exists" | "missing"
    index,         \* load_data's dict, in insertion order: Seq of CityRecord
    seeded,        \* history: seeded[i] is the traffic row that wrote index[i]
    row,           \* load_data's loop variable: the row read last
    tIdx,          \* number of traffic rows read
    stored,        \* history: number of traffic rows stored in the index
    airRead,       \* history: the air files opened so far, each the rows read
    records,       \* self.records
    error,         \* exception that left load_data, or "none"
    ret,           \* what the last method call returned
    outFile,       \* the report file: <<>> when absent, else <<report>>
    printed        \* the last line printed

vars == <<pc, traffic_file, air_folder, index, seeded, row, tIdx, stored, airRead,
          records, error, ret, outFile, printed>>

-----------------------------------------------------------------------------
(* Bounds of the model. *)

MaxTrafficRows == 2
MaxAirFiles == 2
MaxAirRows == 2
MaxRecords == 2

-----------------------------------------------------------------------------
(* Python values. *)

\* Python's None.  Every str is a sequence of one-character strings, so this
\* one-element sequence is no str.
None == <<"None">>

\* The key is not in the row's dict (the file has no such column); no str either.
Missing == <<"KeyError">>

Abs(n) == IF n < 0 THEN -n ELSE n

\* seq[:n]
Take(s, n) == SubSeq(s, 1, IF n < Len(s) THEN n ELSE Len(s))

UpperCase == <<"A","B","C","D","E","F","G","H","I","J","K","L","M",
               "N","O","P","Q","R","S","T","U","V","W","X","Y","Z">>
LowerCase == <<"a","b","c","d","e","f","g","h","i","j","k","l","m",
               "n","o","p","q","r","s","t","u","v","w","x","y","z">>

LowerChar(c) ==
    IF \E i \in 1..26 : UpperCase[i] = c
    THEN LowerCase[CHOOSE i \in 1..26 : UpperCase[i] = c]
    ELSE c

\* str.lower()
Lower(s) == [i \in 1..Len(s) |-> LowerChar(s[i])]

IsSpace(c) == c \in {" ", "\t"}

RECURSIVE LStrip(_)
LStrip(s) == IF s # <<>> /\ IsSpace(Head(s)) THEN LStrip(Tail(s)) ELSE s

RECURSIVE RStrip(_)
RStrip(s) ==
    IF s # <<>> /\ IsSpace(s[Len(s)]) THEN RStrip(SubSeq(s, 1, Len(s) - 1)) ELSE s

\* str.strip()
Strip(s) == RStrip(LStrip(s))

\* str.replace(c, '')
RECURSIVE RemoveChar(_, _)
RemoveChar(s, c) ==
    IF s = <<>> THEN <<>>
    ELSE IF Head(s) = c THEN RemoveChar(Tail(s), c)
    ELSE <<Head(s)>> \o RemoveChar(Tail(s), c)

\* str.split(c): the list of the pieces between the separators
RECURSIVE Split(_, _)
Split(s, c) ==
    IF \E i \in 1..Len(s) : s[i] = c
    THEN LET i == CHOOSE j \in 1..Len(s) : s[j] = c /\ \A k \in 1..(j-1) : s[k] # c
         IN  <<SubSeq(s, 1, i - 1)>> \o Split(SubSeq(s, i + 1, Len(s)), c)
    ELSE <<s>>

DigitChars == <<"0","1","2","3","4","5","6","7","8","9">>

IsDigit(c) == \E i \in 1..10 : DigitChars[i] = c

DigitVal(c) == (CHOOSE i \in 1..10 : DigitChars[i] = c) - 1

AllDigits(s) == \A i \in 1..Len(s) : IsDigit(s[i])

RECURSIVE DigitsVal(_)
DigitsVal(s) ==
    IF s = <<>> THEN 0 ELSE DigitsVal(SubSeq(s, 1, Len(s) - 1)) * 10 + DigitVal(s[Len(s)])

Fail == [ok |-> FALSE, v |-> 0]

Ok(n) == [ok |-> TRUE, v |-> n]

\* int(x) for x a str or None: surrounding whitespace and one sign are allowed,
\* then decimal digits only; anything else raises (ok is FALSE).
ParseInt(x) ==
    IF x = None THEN Fail
    ELSE LET s == Strip(x)
             signed == s # <<>> /\ Head(s) \in {"+", "-"}
             body == IF signed THEN Tail(s) ELSE s
         IN  IF body = <<>> \/ ~AllDigits(body) THEN Fail
             ELSE Ok(IF signed /\ Head(s) = "-" THEN -DigitsVal(body) ELSE DigitsVal(body))

\* float(x) for x a str or None, in tenths: sign, digits, and optionally a
\* point and digits (of which the first is kept: the inputs have at most one).
ParseFloat(x) ==
    IF x = None THEN Fail
    ELSE LET s == Strip(x)
             signed == s # <<>> /\ Head(s) \in {"+", "-"}
             body == IF signed THEN Tail(s) ELSE s
             parts == Split(body, ".")
             whole == parts[1]
             frac == IF Len(parts) = 2 THEN parts[2] ELSE <<>>
             mag == DigitsVal(whole) * 10 + (IF frac = <<>> THEN 0 ELSE DigitVal(frac[1]))
         IN  IF Len(parts) > 2 \/ ~AllDigits(whole) \/ ~AllDigits(frac)
                \/ (whole = <<>> /\ frac = <<>>)
             THEN Fail
             ELSE Ok(IF signed /\ Head(s) = "-" THEN -mag ELSE mag)

\* int(f) of a float held in tenths: truncation toward zero
TruncTenths(t) == IF t < 0 THEN -((-t) \div 10) ELSE t \div 10

RECURSIVE Digits(_)
Digits(n) ==
    IF n < 10 THEN <<DigitChars[n + 1]>>
    ELSE Digits(n \div 10) \o <<DigitChars[(n % 10) + 1]>>

RECURSIVE Zeros(_)
Zeros(k) == IF k <= 0 THEN <<>> ELSE <<"0">> \o Zeros(k - 1)

\* f"{n:0{w}d}": the sign, then the digits zero-padded so that the whole
\* field is at least w wide
PadInt(n, w) ==
    LET ds == Digits(Abs(n))
    IN  IF n < 0 THEN <<"-">> \o Zeros(w - 1 - Len(ds)) \o ds
        ELSE Zeros(w - Len(ds)) \o ds

\* dict.get(key, default) on a csv.DictReader row
Get(r, key, default) == IF r[key] = Missing THEN default ELSE r[key]


-----------------------------------------------------------------------------
(* CityRecord. *)

CityRecord(location, traffic_volume, pm25, date) ==
    [location |-> location, traffic_volume |-> traffic_volume,
     pm25 |-> pm25, date |-> date]

Rat(n, d) == [n |-> n, d |-> d]

\* a > b for quotients with positive denominators
RatGt(a, b) == a.n * b.d > b.n * a.d

RatSub(a, b) == Rat(a.n * b.d - b.n * a.d, a.d * b.d)

\* pm25 / traffic_volume, or 0.0 when there is no traffic (pm25 in tenths, so
\* the quotient is in tenths per vehicle)
compute_pollution_to_traffic_ratio(r) ==
    IF r.traffic_volume = 0 THEN Rat(0, 1) ELSE Rat(r.pm25, r.traffic_volume)

-----------------------------------------------------------------------------
(* load_data: the rows the readers can yield. *)

sBronx == <<"B","r","o","n","x">>
sBronxPadded == <<" ","B","R","O","N","X"," ">>
sQueens == <<"Q","u","e","e","n","s">>
sAlbany == <<"A","l","b","a","n","y">>

NYC_COUNTIES ==
    { <<"b","r","o","n","x">>,
      <<"b","r","o","o","k","l","y","n">>,
      <<"m","a","n","h","a","t","t","a","n">>,
      <<"q","u","e","e","n","s">>,
      <<"s","t","a","t","e","n"," ","i","s","l","a","n","d">> }

TRow(boro, yr, m, d, vol) ==
    [Boro |-> boro, Yr |-> yr, M |-> m, D |-> d, Vol |-> vol, Volume |-> Missing]

\* Rows of a traffic file.  A row shorter than the header has None in the
\* columns it lacks (csv.DictReader's restval).
TrafficRows ==
    { TRow(sBronx, <<"2","0","1","6">>, <<"5">>, <<"8">>, <<"3","5","6">>),
      TRow(sBronxPadded, <<"2","0","1","6">>, <<"0","5">>, <<"0","8">>,
           <<"1",",","2","0","0">>),
      TRow(sBronx, <<"2","0","1","6">>, <<"5">>, <<"8">>, <<"-","5">>),
      TRow(sBronx, <<"2","0","1","6">>, <<"5">>, <<"8">>, <<"0",".","9">>),
      TRow(sBronx, <<"2","0","1","6">>, <<"5">>, <<"8">>, <<"n","/","a">>),
      TRow(sBronx, <<"2","0","1","6">>, <<"M","a","y">>, <<"8">>, <<"3","5","6">>),
      TRow(sAlbany, <<"2","0","1","6">>, <<"5">>, <<"8">>, <<"3","5","6">>),
      TRow(sBronx, <<"2","0","1","6">>, <<"5">>, <<"8">>, None),
      TRow(None, None, None, None, None),
      [Boro |-> sQueens, Yr |-> <<"2","0","1","7">>, M |-> <<"1">>, D |-> <<"1","7">>,
       Vol |-> Missing, Volume |-> <<"1","9","0",".","9">>] }

PM25 == "Daily Mean PM2.5 Concentration"

ARow(county, date, pm) == [c \in {"County", "Date", PM25} |->
    IF c = "County" THEN county ELSE IF c = "Date" THEN date ELSE pm]

\* Rows of an air-quality file.
AirRows ==
    { ARow(sBronx, <<"0","5","/","0","8","/","2","0","1","6">>, <<"1","2",".","5">>),
      ARow(sBronxPadded, <<"5","/","8","/","2","0","1","6">>, <<"9",".","8">>),
      ARow(sBronx, <<"0","5","/","0","8","/","2","0","1","6">>, <<"-","1",".","5">>),
      ARow(sQueens, <<"0","1","/","1","7","/","2","0","1","7">>, <<"0",".","0">>),
      ARow(sQueens, <<"2","0","1","7","-","0","1","-","1","7">>, <<"8">>),
      ARow(sAlbany, <<"0","5","/","0","8","/","2","0","1","6">>, <<"1","2",".","5">>),
      ARow(sBronx, None, None),
      ARow(sQueens, <<"1","/","1","7","/","2","0","1","7">>, <<"8">>) }

\* the name bound to no value yet
Unbound == <<"unbound">>

-----------------------------------------------------------------------------
(* load_data: one traffic row. *)

NoDate == [ok |-> FALSE, v |-> <<>>]

\* FormatDate without the zero padding of month and day
FormatDate_unpadded(year, month, day) ==
    PadInt(year, 4) \o <<"-">> \o PadInt(month, 1) \o <<"-">> \o PadInt(day, 1)

\* f"{year:04d}-{month:02d}-{day:02d}"
FormatDate(year, month, day) ==
    PadInt(year, 4) \o <<"-">> \o PadInt(month, 2) \o <<"-">> \o PadInt(day, 2)

\* lines 195-201: the date of a traffic row, or the row is skipped
TrafficDate(r) ==
    LET year == ParseInt(Get(r, "Yr", <<"0">>))
        month == ParseInt(Get(r, "M", <<"0">>))
        day == ParseInt(Get(r, "D", <<"0">>))
    IN  IF year.ok /\ month.ok /\ day.ok
        THEN [ok |-> TRUE, v |-> FormatDate(year.v, month.v, day.v)]
        ELSE NoDate

\* line 191: None has no strip()
TrafficBoroRaises(r) == Get(r, "Boro", <<>>) = None

TrafficBoro(r) == Lower(Strip(Get(r, "Boro", <<>>)))

\* lines 192-201: the row reaches the volume parsing
TrafficInScope(r) ==
    /\ ~TrafficBoroRaises(r)
    /\ TrafficBoro(r) \in NYC_COUNTIES
    /\ TrafficDate(r).ok

\* line 203: None has no replace()
TrafficVolRaises(r) == Get(r, "Vol", Get(r, "Volume", <<"0">>)) = None

\* lines 203-207
TrafficVolume(r) ==
    LET traffic_str == RemoveChar(Get(r, "Vol", Get(r, "Volume", <<"0">>)), ",")
        f == ParseFloat(traffic_str)
    IN  IF f.ok THEN TruncTenths(f.v) ELSE 0

\* an AttributeError leaves the traffic loop
TrafficRowRaises(r) ==
    TrafficBoroRaises(r) \/ (TrafficInScope(r) /\ TrafficVolRaises(r))

\* lines 209-210
TrafficSkipsVolume(traffic) == traffic = 0

\* the row is stored in the index
TrafficAccepts(r) ==
    /\ TrafficInScope(r)
    /\ ~TrafficVolRaises(r)
    /\ ~TrafficSkipsVolume(TrafficVolume(r))

KeyOf(rec) == <<rec.location, rec.date>>

HasKey(idx, key) == \E i \in 1..Len(idx) : KeyOf(idx[i]) = key

PosOf(idx, key) == CHOOSE i \in 1..Len(idx) : KeyOf(idx[i]) = key

\* IndexPut on a list of records instead of a dict
IndexPut_append(idx, rec) == Append(idx, rec)

\* index[key] = rec: a dict keeps the place of a key it already has
IndexPut(idx, rec) ==
    IF HasKey(idx, KeyOf(rec))
    THEN [idx EXCEPT ![PosOf(idx, KeyOf(rec))] = rec]
    ELSE Append(idx, rec)

\* lines 212-214
TrafficRecord(r) == CityRecord(TrafficBoro(r), TrafficVolume(r), 0, TrafficDate(r).v)

\* lines 190-214, on the index
TrafficStep(idx, r) ==
    IF TrafficAccepts(r) THEN IndexPut(idx, TrafficRecord(r)) ELSE idx

\* the same on the count of the rows stored
StoredStep(n, r) == IF TrafficAccepts(r) THEN n + 1 ELSE n

\* the same on the history of the rows that wrote the entries
SeededStep(idx, sd, r) ==
    IF ~TrafficAccepts(r) THEN sd
    ELSE IF HasKey(idx, KeyOf(TrafficRecord(r)))
         THEN [sd EXCEPT ![PosOf(idx, KeyOf(TrafficRecord(r)))] = r]
         ELSE Append(sd, r)

-----------------------------------------------------------------------------
(* load_data: one air-quality row. *)

\* lines 228-229: row['Date'].split('/') unpacked into m, d, y
AirDate(r) ==
    IF r["Date"] \in {Missing, None} THEN NoDate
    ELSE LET parts == Split(r["Date"], "/")
         IN  IF Len(parts) # 3 THEN NoDate
             ELSE LET m == ParseInt(parts[1])
                      d == ParseInt(parts[2])
                      y == ParseInt(parts[3])
                  IN  IF y.ok /\ m.ok /\ d.ok
                      THEN [ok |-> TRUE, v |-> FormatDate(y.v, m.v, d.v)]
                      ELSE NoDate

AirCounty(r) == Lower(Strip(Get(r, "County", <<>>)))

\* line 235: float(row.get(..., 0.0))
AirPm25(r) == ParseFloat(Get(r, PM25, <<"0",".","0">>))

\* line 236
AirSkipsPm25(pm25) == pm25 = 0

\* lines 226-238 and 244-245: the row gets as far as the key lookup
AirAccepts(r) ==
    /\ AirDate(r).ok
    /\ Get(r, "County", <<>>) # None
    /\ AirCounty(r) \in NYC_COUNTIES
    /\ AirPm25(r).ok
    /\ ~AirSkipsPm25(AirPm25(r).v)

AirKey(r) == <<AirCounty(r), AirDate(r).v>>

\* IndexUpdate storing the reading under a key the index lacks
IndexUpdate_upsert(idx, key, pm25) ==
    IF HasKey(idx, key)
    THEN [idx EXCEPT ![PosOf(idx, key)].pm25 = pm25]
    ELSE Append(idx, CityRecord(key[1], 0, pm25, key[2]))

\* lines 239-241
IndexUpdate(idx, key, pm25) ==
    IF HasKey(idx, key)
    THEN [idx EXCEPT ![PosOf(idx, key)].pm25 = pm25]
    ELSE idx

\* lines 225-245, on the index
AirStep(idx, r) ==
    IF AirAccepts(r) THEN IndexUpdate(idx, AirKey(r), AirPm25(r).v) ELSE idx

\* KeepRecord without the test of pm25
KeepRecord_traffic_only(rec) == rec.traffic_volume > 0

\* lines 247-249
KeepRecord(rec) == rec.traffic_volume > 0 /\ rec.pm25 > 0

FilterIndex(idx) == SelectSeq(idx, KeepRecord)

RECURSIVE SeqSum(_)
SeqSum(s) == IF s = <<>> THEN 0 ELSE Head(s) + SeqSum(Tail(s))

AirRowsRead(files) == SeqSum([i \in 1..Len(files) |-> Len(files[i])])

-----------------------------------------------------------------------------
(* CityDataSet: construction and load_data. *)

city_name == "New York City"

NoRet == [op |-> "none", arg |-> 0, value |-> 0]

\* Paths a caller passes to export_summary: the report file, and a path in a
\* directory that does not exist, which open(..., 'w') refuses.
ReportPath == "report.txt"
OutputPaths == {ReportPath, "missing_dir/report.txt"}

\* what a report file left by an earlier run holds
PreviousReport ==
    [city |-> "Test City", total |-> 3, avg_traffic |-> [n |-> 300, d |-> 3],
     avg_pm25 |-> [n |-> 60, d |-> 3], yearly |-> <<>>, hotspots |-> <<>>]

\* CityDataSet.__init__; nothing has been read, called or written
Init ==
    /\ pc = "new"
    /\ traffic_file = "unopened"
    /\ air_folder = "unchecked"
    /\ index = <<>>
    /\ seeded = <<>>
    /\ row = Unbound
    /\ tIdx = 0
    /\ stored = 0
    /\ airRead = <<>>
    /\ records = <<>>
    /\ error = "none"
    /\ ret = NoRet
    /\ outFile \in {<<>>, <<PreviousReport>>}
    /\ printed = "nothing"

\* no method has been called on the dataset yet
Uncalled == ret = NoRet /\ printed = "nothing"

\* main.py calls load_data on the dataset it has just constructed; the runs of
\* load_data modelled start with no report on disk
Fresh == pc = "new" /\ records = <<>> /\ Uncalled /\ outFile = <<>>

\* lines 184-188: open(traffic_file) raises when there is no such file
LoadData ==
    /\ Fresh
    /\ \E exists \in BOOLEAN :
          IF exists
          THEN /\ traffic_file' = "open"
               /\ pc' = "traffic"
               /\ error' = error
          ELSE /\ traffic_file' = "missing"
               /\ pc' = "raised"
               /\ error' = "FileNotFoundError"
    /\ UNCHANGED <<stored, air_folder, index, seeded, row, tIdx, airRead, records, ret,
                   outFile, printed>>

\* TrafficRow with the traffic file still read while air rows are applied
TrafficRow_late ==
    /\ pc \in {"traffic", "air_rows"}
    /\ tIdx < MaxTrafficRows
    /\ \E r \in TrafficRows :
          /\ row' = r
          /\ tIdx' = tIdx + 1
          /\ IF TrafficRowRaises(r)
             THEN /\ pc' = "raised"
                  /\ error' = "AttributeError"
                  /\ UNCHANGED <<index, seeded, stored>>
             ELSE /\ pc' = pc
                  /\ error' = error
                  /\ index' = TrafficStep(index, r)
                  /\ seeded' = SeededStep(index, seeded, r)
                  /\ stored' = StoredStep(stored, r)
    /\ UNCHANGED <<traffic_file, air_folder, airRead, records, ret, outFile, printed>>

\* lines 190-214: the reader yields one more row
TrafficRow ==
    /\ pc = "traffic"
    /\ tIdx < MaxTrafficRows
    /\ \E r \in TrafficRows :
          /\ row' = r
          /\ tIdx' = tIdx + 1
          /\ IF TrafficRowRaises(r)
             THEN /\ pc' = "raised"
                  /\ error' = "AttributeError"
                  /\ UNCHANGED <<index, seeded, stored>>
             ELSE /\ pc' = pc
                  /\ error' = error
                  /\ index' = TrafficStep(index, r)
                  /\ seeded' = SeededStep(index, seeded, r)
                  /\ stored' = StoredStep(stored, r)
    /\ UNCHANGED <<traffic_file, air_folder, airRead, records, ret, outFile, printed>>

\* the traffic file is exhausted: lines 216-220, os.path.exists(air_folder)
TrafficEOF ==
    /\ pc = "traffic"
    /\ traffic_file' = "closed"
    /\ \E exists \in BOOLEAN :
          IF exists
          THEN air_folder' = "exists" /\ pc' = "air_files"
          ELSE air_folder' = "missing" /\ pc' = "filter"
    /\ UNCHANGED <<stored, index, seeded, row, tIdx, airRead, records, error, ret, outFile,
                   printed>>

\* lines 222-224: the next file of air_files (os.listdir's order) is opened
AirOpen ==
    /\ pc = "air_files"
    /\ Len(airRead) < MaxAirFiles
    /\ airRead' = Append(airRead, <<>>)
    /\ pc' = "air_rows"
    /\ UNCHANGED <<stored, traffic_file, air_folder, index, seeded, row, tIdx, records, error,
                   ret, outFile, printed>>

\* lines 225-245: the reader yields one more row
AirRow ==
    /\ pc = "air_rows"
    /\ AirRowsRead(airRead) < MaxAirRows
    /\ \E r \in AirRows :
          /\ row' = r
          /\ airRead' = [airRead EXCEPT ![Len(airRead)] = Append(@, r)]
          /\ index' = AirStep(index, r)
    /\ UNCHANGED <<stored, pc, traffic_file, air_folder, seeded, tIdx, records, error, ret,
                   outFile, printed>>

\* the air file is exhausted
AirEOF ==
    /\ pc = "air_rows"
    /\ pc' = "air_files"
    /\ UNCHANGED <<stored, traffic_file, air_folder, index, seeded, row, tIdx, airRead, records,
                   error, ret, outFile, printed>>

\* air_files is exhausted
AirFilesDone ==
    /\ pc = "air_files"
    /\ pc' = "filter"
    /\ UNCHANGED <<stored, traffic_file, air_folder, index, seeded, row, tIdx, airRead, records,
                   error, ret, outFile, printed>>

\* lines 247-251
Filter ==
    /\ pc = "filter"
    /\ records' = FilterIndex(index)
    /\ printed' = "loaded"
    /\ pc' = "loaded"
    /\ UNCHANGED <<stored, traffic_file, air_folder, index, seeded, row, tIdx, airRead, error,
                   ret, outFile>>

\* load_data returns: its locals are gone
LoadReturn ==
    /\ pc = "loaded"
    /\ pc' = "ready"
    /\ index' = <<>>
    /\ seeded' = <<>>
    /\ row' = Unbound
    /\ tIdx' = 0
    /\ stored' = 0
    /\ airRead' = <<>>
    /\ UNCHANGED <<traffic_file, air_folder, records, error, ret, outFile, printed>>

-----------------------------------------------------------------------------
(* CityDataSet: the aggregates, find_hotspots and export_summary. *)

sASt == <<"A"," ","S","t">>
sBSt == <<"B"," ","S","t">>
sCSt == <<"C"," ","S","t">>
sZeroTraffic == <<"Z","e","r","o"," ","T","r","a","f","f","i","c">>
sDictSt == <<"D","i","c","t"," ","S","t">>

\* Records a caller puts into records itself, as the tests' setUp does; the
\* date of a CityRecord is optional and is not validated by __init__.
DirectRecords ==
    { CityRecord(sASt, 100, 50, <<"2","0","2","5","-","0","1","-","0","1">>),
      CityRecord(sBSt, 200, 10, <<"2","0","2","4","-","0","1","-","0","2">>),
      CityRecord(sCSt, 0, 0, <<"2","0","2","5","-","0","1","-","0","3">>),
      CityRecord(sZeroTraffic, 0, 100, None),
      CityRecord(sDictSt, 100, 10, <<"1","/","2","/","2","0","2","5">>) }

\* Thresholds a caller passes to find_hotspots, in tenths per vehicle:
\* -0.1, 0.01 (export_summary's) and 0.05.
Thresholds == { Rat(-1, 1), Rat(1, 10), Rat(5, 10) }

TrafficOf(recs) == [i \in 1..Len(recs) |-> recs[i].traffic_volume]

Pm25Of(recs) == [i \in 1..Len(recs) |-> recs[i].pm25]

\* average_traffic over the records with traffic only
average_traffic_nonzero(recs) ==
    LET HasTraffic(rec) == rec.traffic_volume > 0
        counted == SelectSeq(recs, HasTraffic)
    IN  IF counted = <<>> THEN Rat(0, 1)
        ELSE Rat(SeqSum(TrafficOf(counted)), Len(counted))

\* lines 119-123
average_traffic(recs) ==
    IF recs = <<>> THEN Rat(0, 1) ELSE Rat(SeqSum(TrafficOf(recs)), Len(recs))

\* lines 133-141: the value under 'pm25'
average_air_quality(recs) ==
    IF recs = <<>> THEN Rat(0, 1) ELSE Rat(SeqSum(Pm25Of(recs)), Len(recs))

\* IsHotspot with >= for >
IsHotspot_inclusive(rec, threshold) ==
    /\ rec.traffic_volume > 0 /\ rec.pm25 > 0
    /\ ~RatGt(threshold, compute_pollution_to_traffic_ratio(rec))

\* lines 293-295
IsHotspot(rec, threshold) ==
    /\ rec.traffic_volume > 0 /\ rec.pm25 > 0
    /\ RatGt(compute_pollution_to_traffic_ratio(rec), threshold)

\* lines 290-297
find_hotspots(recs, threshold) ==
    LET Test(rec) == IsHotspot(rec, threshold) IN SelectSeq(recs, Test)

\* line 350: int(record.date[:4])
YearOf(rec) == IF rec.date = None THEN Fail ELSE ParseInt(Take(rec.date, 4))

RECURSIVE SortedSeq(_)
SortedSeq(S) ==
    IF S = {} THEN <<>>
    ELSE LET m == CHOOSE x \in S : \A y \in S : x <= y
         IN  <<m>> \o SortedSeq(S \ {m})

\* lines 359-370: one line of the yearly breakdown
YearlyLine(recs, year) ==
    LET InYear(rec) == YearOf(rec).v = year
        of_year == SelectSeq(recs, InYear)
        avg_traffic == Rat(SeqSum(TrafficOf(of_year)), Len(of_year))
        avg_pm25 == Rat(SeqSum(Pm25Of(of_year)), Len(of_year))
    IN  [year |-> year, avg_traffic |-> avg_traffic,
         traffic_diff |-> RatSub(avg_traffic, average_traffic(recs)),
         avg_pm25 |-> avg_pm25,
         pm25_diff |-> RatSub(avg_pm25, average_air_quality(recs))]

\* lines 344-390: the report, field by field
Report(recs) ==
    LET years == SortedSeq({YearOf(recs[i]).v : i \in 1..Len(recs)})
        hotspots == find_hotspots(recs, Rat(1, 10))
    IN  [city |-> city_name,
         total |-> Len(recs),
         avg_traffic |-> average_traffic(recs),
         avg_pm25 |-> average_air_quality(recs),
         yearly |-> [i \in 1..Len(years) |-> YearlyLine(recs, years[i])],
         hotspots |-> [i \in 1..Len(hotspots) |->
                          [location |-> hotspots[i].location,
                           ratio |-> compute_pollution_to_traffic_ratio(hotspots[i])]]]

\* NothingToSummarize without the test
NothingToSummarize_never(recs) == FALSE

\* line 339
NothingToSummarize(recs) == recs = <<>>

\* lines 349-350 raise for some record
YearRaises(recs) == \E i \in 1..Len(recs) : ~YearOf(recs[i]).ok

\* lines 338-400: what is printed, given whether open(output_file, 'w') succeeds
ExportPrints(recs, writable) ==
    IF NothingToSummarize(recs) THEN "no_records"
    ELSE IF YearRaises(recs) \/ ~writable THEN "error"
    ELSE "written"

\* lines 393-394: the file afterwards
ExportFile(recs, writable, file) ==
    IF ExportPrints(recs, writable) = "written" THEN <<Report(recs)>> ELSE file

Callable == pc \in {"new", "manual", "ready"}

\* records.append / records.extend by the caller (test_urbanflow.py setUp),
\* before it calls any method
AppendRecord ==
    /\ pc \in {"new", "manual"}
    /\ Uncalled
    /\ Len(records) < MaxRecords
    /\ \E rec \in DirectRecords : records' = Append(records, rec)
    /\ pc' = "manual"
    /\ UNCHANGED <<stored, traffic_file, air_folder, index, seeded, row, tIdx, airRead, error,
                   ret, outFile, printed>>

AverageTraffic ==
    /\ Callable
    /\ ret' = [op |-> "average_traffic", arg |-> 0, value |-> average_traffic(records)]
    /\ UNCHANGED <<stored, pc, traffic_file, air_folder, index, seeded, row, tIdx, airRead,
                   records, error, outFile, printed>>

AverageAirQuality ==
    /\ Callable
    /\ ret' = [op |-> "average_air_quality", arg |-> 0,
               value |-> average_air_quality(records)]
    /\ UNCHANGED <<stored, pc, traffic_file, air_folder, index, seeded, row, tIdx, airRead,
                   records, error, outFile, printed>>

\* find_hotspots keeping only the hotspots in the dataset
FindHotspots_filtering ==
    /\ Callable
    /\ \E threshold \in Thresholds :
          /\ ret' = [op |-> "find_hotspots", arg |-> threshold,
                     value |-> find_hotspots(records, threshold)]
          /\ records' = find_hotspots(records, threshold)
    /\ UNCHANGED <<stored, pc, traffic_file, air_folder, index, seeded, row, tIdx, airRead,
                   error, outFile, printed>>

\* lines 278-297
FindHotspots ==
    /\ Callable
    /\ \E threshold \in Thresholds :
          ret' = [op |-> "find_hotspots", arg |-> threshold,
                  value |-> find_hotspots(records, threshold)]
    /\ UNCHANGED <<stored, pc, traffic_file, air_folder, index, seeded, row, tIdx, airRead,
                   records, error, outFile, printed>>

\* export_summary; every exception is caught at line 399
ExportSummary ==
    /\ Callable
    /\ \E output_file \in OutputPaths :
          /\ printed' = ExportPrints(records, output_file = ReportPath)
          /\ outFile' = ExportFile(records, output_file = ReportPath, outFile)
          /\ ret' = [op |-> "export_summary", arg |-> output_file, value |-> 0]
    /\ UNCHANGED <<stored, pc, traffic_file, air_folder, index, seeded, row, tIdx, airRead,
                   records, error>>

Next ==
    \/ LoadData
    \/ TrafficRow
    \/ TrafficEOF
    \/ AirOpen
    \/ AirRow
    \/ AirEOF
    \/ AirFilesDone
    \/ Filter
    \/ LoadReturn
    \/ AppendRecord
    \/ AverageTraffic
    \/ AverageAirQuality
    \/ FindHotspots
    \/ ExportSummary

Spec == Init /\ [][Next]_vars

-----------------------------------------------------------------------------
(* Properties. *)

RecordSet(recs) == {recs[i] : i \in 1..Len(recs)}

\* C1: once load_data has completed, every record of records has
\* traffic_volume > 0 and pm25 > 0; a traffic-only record (pm25 still 0) or a
\* record with a non-positive field is never published.
C1_PublishedRecordsPositive ==
    pc \in {"loaded", "ready"} =>
        \A i \in 1..Len(records) :
            records[i].traffic_volume > 0 /\ records[i].pm25 > 0

\* load_data has completed with a record published and another one, traffic-only
\* or with a non-positive field, left behind in the index
C1_Witness ==
    /\ pc = "loaded"
    /\ records # <<>>
    /\ \E i \in 1..Len(index) : index[i].pm25 <= 0 \/ index[i].traffic_volume <= 0

\* C2: no row, whatever its fields hold, makes load_data raise: the only way
\* load_data is left by an exception is not a row's doing.
C2_NoRowRaises == ~(pc = "raised" /\ error = "AttributeError")

\* the volume field of a traffic row is unparsable, or zero or negative once
\* truncated to an integer
VolumeUnusable(r) ==
    LET vol == Get(r, "Vol", Get(r, "Volume", <<"0">>))
        f == ParseFloat(RemoveChar(vol, ","))
    IN  vol = None \/ ~f.ok \/ TruncTenths(f.v) <= 0

\* C3: reading a traffic row whose volume is unparsable or non-positive leaves
\* the join index unchanged.
C3_UnusableVolumeLeavesIndex ==
    [][(pc = "traffic" /\ tIdx' = tIdx + 1 /\ VolumeUnusable(row')) => index' = index]_vars

RECURSIVE FoldAirRows(_, _)
FoldAirRows(idx, rows) ==
    IF rows = <<>> THEN idx ELSE FoldAirRows(AirStep(idx, Head(rows)), Tail(rows))

RECURSIVE FoldAirFiles(_, _)
FoldAirFiles(idx, files) ==
    IF files = <<>> THEN idx
    ELSE FoldAirFiles(FoldAirRows(idx, Head(files)), Tail(files))

\* the index as the traffic rows left it
SeedIndex == [i \in 1..Len(seeded) |-> TrafficRecord(seeded[i])]

\* C4: for the traffic stream read, the set of records load_data produces is
\* the same for every order in which the air-quality files read could have
\* been processed.
C4_AirFileOrderIrrelevant ==
    pc = "loaded" =>
        \A p \in Permutations(1..Len(airRead)) :
            RecordSet(FilterIndex(FoldAirFiles(SeedIndex,
                                               [i \in 1..Len(airRead) |-> airRead[p[i]]])))
                = RecordSet(records)

\* C5: an air-quality row never creates a record.  Reading one keeps the
\* length of the index and the location, date and traffic_volume of every
\* entry; it changes a pm25 only at the row's own key, only when the row is
\* accepted, and to the row's value; with its key absent it changes nothing.
\* Hence every published record has the key, the date and the traffic_volume
\* of an accepted traffic row.
C5_AirRowsNeverCreate ==
    [][ /\ (pc = "air_rows" /\ airRead' # airRead) =>
              /\ Len(index') = Len(index)
              /\ \A i \in 1..Len(index) :
                    /\ index'[i].location = index[i].location
                    /\ index'[i].date = index[i].date
                    /\ index'[i].traffic_volume = index[i].traffic_volume
                    /\ index'[i].pm25 # index[i].pm25 =>
                          /\ AirAccepts(row')
                          /\ KeyOf(index[i]) = AirKey(row')
                          /\ index'[i].pm25 = AirPm25(row').v
              /\ (~(\E i \in 1..Len(index) : KeyOf(index[i]) = AirKey(row')))
                    => index' = index
        /\ pc' = "loaded" =>
              \A k \in 1..Len(records') :
                 \E i \in 1..Len(seeded') :
                    /\ TrafficAccepts(seeded'[i])
                    /\ records'[k].location = TrafficBoro(seeded'[i])
                    /\ records'[k].date = TrafficDate(seeded'[i]).v
                    /\ records'[k].traffic_volume = TrafficVolume(seeded'[i])
      ]_vars

\* load_data has completed with a record published, after an accepted
\* air-quality row whose key no traffic row had was read and dropped
C5_Witness ==
    /\ pc = "loaded"
    /\ records # <<>>
    /\ \E f \in 1..Len(airRead) : \E j \in 1..Len(airRead[f]) :
          /\ AirAccepts(airRead[f][j])
          /\ ~HasKey(index, AirKey(airRead[f][j]))

IsStr(x) == x \notin {None, Missing}

\* the traffic row names a borough of the allow-list, its Yr, M and D are
\* integers, and its volume is positive
C6_TrafficRowGood(t) ==
    /\ IsStr(t.Boro) /\ Lower(Strip(t.Boro)) \in NYC_COUNTIES
    /\ IsStr(t.Yr) /\ ParseInt(t.Yr).ok
    /\ IsStr(t.M) /\ ParseInt(t.M).ok
    /\ IsStr(t.D) /\ ParseInt(t.D).ok
    /\ ~TrafficVolRaises(t) /\ TrafficVolume(t) > 0

\* the air row names the same borough, after trimming and lower-casing, and
\* its MM/DD/YYYY date denotes the same year, month and day
C6_SameBoroughAndDay(t, a) ==
    /\ IsStr(a["County"]) /\ Lower(Strip(a["County"])) = Lower(Strip(t.Boro))
    /\ IsStr(a["Date"]) /\ Len(Split(a["Date"], "/")) = 3
    /\ LET parts == Split(a["Date"], "/")
       IN  /\ ParseInt(parts[1]).ok /\ ParseInt(parts[1]).v = ParseInt(t.M).v
           /\ ParseInt(parts[2]).ok /\ ParseInt(parts[2]).v = ParseInt(t.D).v
           /\ ParseInt(parts[3]).ok /\ ParseInt(parts[3]).v = ParseInt(t.Yr).v

\* date reads YYYY-MM-DD, zero-padded, for the year, month and day given
C6_DateIs(date, year, month, day) ==
    /\ Len(date) = 10 /\ date[5] = "-" /\ date[8] = "-"
    /\ AllDigits(SubSeq(date, 1, 4)) /\ DigitsVal(SubSeq(date, 1, 4)) = year
    /\ AllDigits(SubSeq(date, 6, 7)) /\ DigitsVal(SubSeq(date, 6, 7)) = month
    /\ AllDigits(SubSeq(date, 9, 10)) /\ DigitsVal(SubSeq(date, 9, 10)) = day

\* rec is the record the claim expects of traffic row t and PM2.5 reading pm25
C6_RecordIs(rec, t, pm25) ==
    /\ rec.location = Lower(Strip(t.Boro))
    /\ rec.traffic_volume = TrafficVolume(t)
    /\ rec.pm25 = pm25
    /\ C6_DateIs(rec.date, ParseInt(t.Yr).v, ParseInt(t.M).v, ParseInt(t.D).v)

C6_HandTestTraffic ==
    TRow(sBronx, <<"2","0","1","6">>, <<"5">>, <<"8">>, <<"3","5","6">>)

C6_HandTestAir ==
    ARow(sBronx, <<"0","5","/","0","8","/","2","0","1","6">>, <<"1","2",".","5">>)

C6_HandTestRecord ==
    CityRecord(<<"b","r","o","n","x">>, 356, 125,
               <<"2","0","1","6","-","0","5","-","0","8">>)

\* a good traffic row read into the empty index is stored under the key the
\* claim names; and when load_data has read that one traffic row and one air
\* row of the same borough and day whose reading is positive (or, when
\* any_sign, not zero), the Filter step publishes exactly the one record joined
\* from the two
C6_Joins(any_sign) ==
    /\ (pc = "traffic" /\ tIdx = 0 /\ tIdx' = 1 /\ C6_TrafficRowGood(row')) =>
          /\ seeded' = <<row'>>
          /\ Len(index') = 1
          /\ C6_RecordIs(index'[1], row', 0)
    /\ (/\ pc = "filter" /\ pc' = "loaded"
        /\ tIdx = 1 /\ Len(seeded) = 1 /\ C6_TrafficRowGood(seeded[1])
        /\ AirRowsRead(airRead) = 1
        /\ C6_SameBoroughAndDay(seeded[1], row)
        /\ IsStr(row[PM25]) /\ ParseFloat(row[PM25]).ok
        /\ IF any_sign THEN ParseFloat(row[PM25]).v # 0
                       ELSE ParseFloat(row[PM25]).v > 0) =>
          /\ Len(records') = 1
          /\ C6_RecordIs(records'[1], seeded[1], ParseFloat(row[PM25]).v)
          /\ (seeded[1] = C6_HandTestTraffic /\ row = C6_HandTestAir)
                => records' = <<C6_HandTestRecord>>

\* C6, as claimed: a traffic row and an air row of the same borough (after
\* trimming and lower-casing, in the allow-list) and the same year, month and
\* day get the same key, so with positive volume v and non-zero PM2.5 p
\* load_data yields exactly one record (lower-cased borough, v, p, zero-padded
\* YYYY-MM-DD).
C6_SameKeyJoins_NonZero == [][C6_Joins(TRUE)]_vars

\* C6, amended: the same with positive PM2.5 p.
C6_SameKeyJoins_Positive == [][C6_Joins(FALSE)]_vars

\* load_data has published the hand-tested record from the hand-tested rows
C6_Witness ==
    /\ pc = "loaded"
    /\ tIdx = 1 /\ seeded = <<C6_HandTestTraffic>>
    /\ AirRowsRead(airRead) = 1 /\ row = C6_HandTestAir
    /\ records = <<C6_HandTestRecord>>

\* the places of records that find_hotspots(t) is to return: traffic and PM2.5
\* positive and pm25 / traffic_volume > t, t being the quotient t.n / t.d
C7_HotPlaces(t) ==
    {i \in 1..Len(records) :
        /\ records[i].traffic_volume > 0
        /\ records[i].pm25 > 0
        /\ records[i].pm25 * t.d > t.n * records[i].traffic_volume}

\* C7: find_hotspots(t) returns exactly the records with traffic_volume > 0,
\* pm25 > 0 and pm25 / traffic_volume strictly greater than t, in the order
\* in which they occur in records.
C7_HotspotsExact ==
    ret.op = "find_hotspots" =>
        LET places == SortedSeq(C7_HotPlaces(ret.arg))
        IN  ret.value = [k \in 1..Len(places) |-> records[places[k]]]

\* find_hotspots has returned a record while leaving out one whose ratio
\* equals the threshold
C7_Witness ==
    /\ ret.op = "find_hotspots"
    /\ ret.value # <<>>
    /\ \E i \in 1..Len(records) :
          /\ records[i].traffic_volume > 0
          /\ records[i].pm25 * ret.arg.d = ret.arg.n * records[i].traffic_volume
          /\ records[i] \notin RecordSet(ret.value)

RECURSIVE C8_Total(_, _)
C8_Total(field, n) ==
    IF n = 0 THEN 0 ELSE C8_Total(field, n - 1) + records[n][field]

\* q is the mean of the field over all the records, or 0 when there are none
C8_IsMean(q, field) ==
    /\ q.d > 0
    /\ IF Len(records) = 0 THEN q.n = 0
       ELSE q.n * Len(records) = C8_Total(field, Len(records)) * q.d

C9_MissingSourceTolerated ==
    (traffic_file = "missing" \/ air_folder = "missing") =>
        /\ pc # "raised" /\ error = "none"
        /\ pc \in {"loaded", "ready"} => records = <<>>
        /\ ret.op \in {"average_traffic", "average_air_quality"} => ret.value.n = 0

\* every record carries a date
C10_AllDated == \A i \in 1..Len(records) : records[i].date # None

\* every record carries a date whose first four characters are an integer
C10_AllYearDated ==
    \A i \in 1..Len(records) :
        records[i].date # None /\ ParseInt(Take(records[i].date, 4)).ok

\* the report file holds a report of the dataset
C10_ReportWritten(file) ==
    /\ Len(file) = 1
    /\ file[1].city = city_name
    /\ file[1].total = Len(records)

\* C10, as claimed: export_summary on a dataset without records leaves the
\* output file as it was and returns; on a non-empty dataset whose records
\* all carry a date it writes a report with the city name and the record count.
C10_Export_AnyDate ==
    [][ret'.op = "export_summary" =>
          /\ records = <<>> =>
                outFile' = outFile /\ printed' = "no_records"
          /\ (records # <<>> /\ C10_AllDated) => C10_ReportWritten(outFile')
      ]_vars

\* C10, amended: ... on a non-empty dataset whose records all carry a date
\* that starts with a four-character integer, and with an output path that
\* can be opened for writing, it writes that report.
C10_Export_YearDatedWritable ==
    [][ret'.op = "export_summary" =>
          /\ records = <<>> =>
                outFile' = outFile /\ printed' = "no_records"
          /\ (records # <<>> /\ C10_AllYearDated /\ ret'.arg = ReportPath) =>
                C10_ReportWritten(outFile') /\ printed' = "written"
      ]_vars

\* export_summary has written the report of a non-empty dataset
C10_Witness ==
    /\ ret.op = "export_summary"
    /\ ret.arg = ReportPath
    /\ records # <<>>
    /\ printed = "written"
    /\ C10_ReportWritten(outFile)

\* no two records of recs have the same location and date
C11_KeysDistinct(recs) ==
    \A i, j \in 1..Len(recs) : KeyOf(recs[i]) = KeyOf(recs[j]) => i = j

\* the step reads one more traffic row (row' is that row)
C11_TrafficRowRead == pc = "traffic" /\ tIdx' = tIdx + 1

-----------------------------------------------------------------------------
(* C12 *)

\* the step applies one more air-quality row to the index (row' is that row)
C12_AirRowApplied == pc = "air_rows" /\ airRead' # airRead

\* load_data is between its first traffic row and its return statement
C12_Loading == pc \in {"traffic", "air_files", "air_rows", "filter"}

\* C12: in every run of load_data an air-quality row is applied only after
\* the traffic file has been read to its end, and a traffic row is read or
\* stored only while no air-quality row has been applied; an accepted
\* air-quality row whose key is that of the last traffic row stored under a
\* key leaves its reading in that record; and a record whose pm25 is not 0
\* keeps its key and a pm25 other than 0 until load_data publishes, where a
\* record with positive volume and reading is published as it is.
C12_TrafficBeforeAir ==
    [][ /\ C12_AirRowApplied =>
              /\ traffic_file = "closed"
              /\ tIdx' = tIdx
              /\ stored' = stored
        /\ (tIdx' > tIdx \/ stored' > stored) =>
              /\ traffic_file = "open"
              /\ AirRowsRead(airRead) = 0
              /\ airRead' = airRead
        /\ (C12_AirRowApplied /\ AirAccepts(row')) =>
              \A i \in 1..Len(seeded) :
                 AirKey(row') = KeyOf(TrafficRecord(seeded[i])) =>
                    /\ KeyOf(index'[i]) = AirKey(row')
                    /\ index'[i].pm25 = AirPm25(row').v
                    /\ index'[i].pm25 # 0
        /\ C12_Loading =>
              \A i \in 1..Len(index) :
                 index[i].pm25 # 0 =>
                    /\ i <= Len(index')
                    /\ KeyOf(index'[i]) = KeyOf(index[i])
                    /\ index'[i].pm25 # 0
        /\ (pc = "filter" /\ pc' = "loaded") =>
              \A i \in 1..Len(index) :
                 (index[i].pm25 > 0 /\ index[i].traffic_volume > 0) =>
                    \E k \in 1..Len(records') : records'[k] = index[i]
      ]_vars

\* after the traffic file was closed with a row stored, one air file gave
\* an accepted row that found its record and then a row of the same key
\* with a zero reading: the record still carries the first reading
C12_Witness ==
    /\ pc = "air_rows"
    /\ traffic_file = "closed"
    /\ stored >= 1
    /\ \E f \in 1..Len(airRead) :
          /\ Len(airRead[f]) = 2
          /\ AirAccepts(airRead[f][1])
          /\ HasKey(index, AirKey(airRead[f][1]))
          /\ AirDate(airRead[f][2]).ok
          /\ AirPm25(airRead[f][2]).ok
          /\ AirSkipsPm25(AirPm25(airRead[f][2]).v)
          /\ AirKey(airRead[f][2]) = AirKey(airRead[f][1])
          /\ index[PosOf(index, AirKey(airRead[f][1]))].pm25 = AirPm25(airRead[f][1]).v

-----------------------------------------------------------------------------
(* C13 *)

\* C13: once load_data has returned, every call of average_traffic,
\* average_air_quality, find_hotspots or export_summary leaves records as
\* it was (same records in the same order) and raises nothing; a call of
\* export_summary on a non-empty dataset whose output file cannot be opened
\* prints the error once, returns, and leaves the output file as it was.
C13_MethodsKeepRecords ==
    [][pc = "ready" =>
          /\ records' = records
          /\ pc' = "ready"
          /\ error' = "none"
          /\ ret'.op \in {"average_traffic", "average_air_quality", "find_hotspots",
                          "export_summary"}
          /\ (ret'.op = "export_summary" /\ ret'.arg # ReportPath /\ records # <<>>) =>
                /\ printed' = "error"
                /\ outFile' = outFile
      ]_vars

\* export_summary was called on a loaded, non-empty dataset with an output
\* path that cannot be opened: the error is printed, nothing was raised or
\* written, and the records are the published ones
C13_Witness ==
    /\ pc = "ready"
    /\ records # <<>>
    /\ \A i \in 1..Len(records) : KeepRecord(records[i])
    /\ ret.op = "export_summary"
    /\ ret.arg # ReportPath
    /\ printed = "error"
    /\ error = "none"
    /\ outFile = <<>>

=============================================================================
